---- MODULE Spec2Model ----
(***************************************************************************)
(* Model of route_compare.py: the Route value type, the three parsing      *)
(* strategies of RouteParser (JSON, tabular, free-form text) and the       *)
(* subnet-keyed RouteComparator.                                            *)
(*                                                                         *)
(* Strings are sequences of one-character strings; None is the sequence    *)
(* <<"None">>, which no character string equals.  Dotted addresses are     *)
(* sequences of octets, '' is <<>> and None is <<-1>>.  A text line is the *)
(* record of the groups the source's regular expressions capture from it.  *)
(***************************************************************************)
EXTENDS Integers, Sequences, FiniteSets, TLC

VARIABLES
    pc,                  \* position in parse_file / in the comparator run
    content,             \* the content read by parse_file
    called,              \* the parsing strategies parse_file has invoked
    routes,              \* the list the running strategy returns
    current_destination, \* _parse_text: pending header destination
    current_prefix,      \* _parse_text: pending header prefix length
    input,               \* history: the units (lines, items, rows) read so far
    src,                 \* history: for each element of routes, the index in input of its unit
    last,                \* history: what the last unit did, and the pending state before it
    raw_pre,             \* the constructor arguments of the pre-change routes
    raw_post,            \* the constructor arguments of the post-change routes
    all_pre_routes,      \* RouteComparator.all_pre_routes
    all_post_routes,     \* RouteComparator.all_post_routes
    pre_routes,          \* RouteComparator.pre_routes (subnet -> first route)
    pre_route_details,   \* RouteComparator.pre_route_details (subnet -> all routes)
    post_routes,         \* RouteComparator.post_routes
    post_route_details,  \* RouteComparator.post_route_details
    comparison           \* the value compare() returns

vars == <<pc, content, called, routes, current_destination, current_prefix,
          input, src, last, raw_pre, raw_post, all_pre_routes, all_post_routes,
          pre_routes, pre_route_details, post_routes, post_route_details,
          comparison>>

parseVars == <<content, called, routes, current_destination, current_prefix,
               input, src, last>>

compareVars == <<raw_pre, raw_post, all_pre_routes, all_post_routes,
                 pre_routes, pre_route_details, post_routes,
                 post_route_details, comparison>>

(***************************************************************************)
(* Bounds                                                                  *)
(***************************************************************************)
\* units (lines, JSON items, rows) read from one file
MaxUnits == 3
\* routes in each of the two sequences handed to the comparator
MaxRoutes == 2

(***************************************************************************)
(* Python values                                                           *)
(***************************************************************************)
None == <<"None">>
NoneAddr == <<-1>>
NoneInt == -1

\* truthiness of an Optional[str] holding text
Truthy(s) == s # None /\ s # <<>>

\* truthiness of an Optional[str] holding a dotted address
TruthyAddr(a) == a # NoneAddr /\ a # <<>>

UpperCase == <<"A","B","C","D","E","F","G","H","I","J","K","L","M",
               "N","O","P","Q","R","S","T","U","V","W","X","Y","Z">>
LowerCase == <<"a","b","c","d","e","f","g","h","i","j","k","l","m",
               "n","o","p","q","r","s","t","u","v","w","x","y","z">>

\* str.lower()
Lower(s) ==
    [i \in 1..Len(s) |->
        IF \E k \in 1..26 : UpperCase[k] = s[i]
        THEN LowerCase[CHOOSE k \in 1..26 : UpperCase[k] = s[i]]
        ELSE s[i]]

\* str.startswith(p)
StartsWith(s, p) == Len(s) >= Len(p) /\ SubSeq(s, 1, Len(p)) = p

\* p in s
Contains(s, p) ==
    \E i \in 0..(Len(s) - Len(p)) : SubSeq(s, i + 1, i + Len(p)) = p

\* str.rstrip(chars)
RECURSIVE RStrip(_, _)
RStrip(s, chars) ==
    IF s # <<>> /\ s[Len(s)] \in chars
    THEN RStrip(SubSeq(s, 1, Len(s) - 1), chars)
    ELSE s

\* str.lstrip(chars)
RECURSIVE LStrip(_, _)
LStrip(s, chars) ==
    IF s # <<>> /\ s[1] \in chars
    THEN LStrip(SubSeq(s, 2, Len(s)), chars)
    ELSE s

\* str.strip()
Strip(s) == LStrip(RStrip(s, {" "}), {" "})

Pow2(n) == 2 ^ n
Min(a, b) == IF a < b THEN a ELSE b
Max(a, b) == IF a > b THEN a ELSE b

(***************************************************************************)
(* Route                                                                   *)
(***************************************************************************)
STR_vlan == <<"v","l","a","n">>
STR_isis == <<"i","s","i","s","-","i","s","i","s","_","i","n","f","r","a">>

\* ipaddress.ip_network(f"{destination}/{prefix_length}", strict=False) succeeds
ValidNetwork(destination, prefix_length) ==
    /\ Len(destination) = 4
    /\ \A i \in 1..4 : destination[i] \in 0..255
    /\ prefix_length \in 0..32

\* str(network.network_address)
NetworkAddress(destination, prefix_length) ==
    [i \in 1..4 |->
        LET keep == Min(8, Max(0, prefix_length - 8 * (i - 1)))
        IN  destination[i] - (destination[i] % Pow2(8 - keep))]

NormDestination(destination, prefix_length) ==
    IF ValidNetwork(destination, prefix_length)
    THEN NetworkAddress(destination, prefix_length)
    ELSE destination

NormProtocol(protocol) ==
    IF Truthy(protocol) THEN RStrip(protocol, {",", "]"}) ELSE protocol

\* NormInterface without the lower(): only a lower-case 'vlan' prefix collapses
NormInterface_case_sensitive(interface) ==
    IF Truthy(interface) /\ StartsWith(interface, STR_vlan)
    THEN STR_vlan
    ELSE interface

NormInterface(interface) ==
    IF Truthy(interface) /\ StartsWith(Lower(interface), STR_vlan)
    THEN STR_vlan
    ELSE interface

\* Route(...) followed by __post_init__
Route(destination, prefix_length, next_hop, interface, protocol, metric, admin_distance) ==
    [destination    |-> NormDestination(destination, prefix_length),
     prefix_length  |-> prefix_length,
     next_hop       |-> next_hop,
     interface      |-> NormInterface(interface),
     protocol       |-> NormProtocol(protocol),
     metric         |-> metric,
     admin_distance |-> admin_distance]

\* Route.subnet
subnet(route) == <<route.destination, route.prefix_length>>

\* IsIsisInfra looking for the tag of the second protocol column
IsIsisInfra_other_tag(route) ==
    Truthy(route.protocol)
        /\ Contains(route.protocol, <<"i","s","i","s","-","l","1","-","e","x","t">>)

\* route.protocol and 'isis-isis_infra' in route.protocol
IsIsisInfra(route) == Truthy(route.protocol) /\ Contains(route.protocol, STR_isis)

(***************************************************************************)
(* Text lines: what the regular expressions of _parse_cisco_route_line and *)
(* _parse_generic_route_line capture.  form is the first pattern family    *)
(* that matches the stripped line:                                         *)
(*   "skip"    blank, comment or banner line (filtered before matching)    *)
(*   "header"  nexus_route_header                                          *)
(*   "via"     nexus_via_patterns (pat = index of the matching pattern)    *)
(*   "legacy"  the legacy patterns (pat = index of the matching pattern)   *)
(*   "generic" no Cisco pattern; ips = the matches of ip_pattern           *)
(* An ip match is <<address, prefix>>, prefix = NoneInt without '/'.       *)
(* has: which of ',', 'Destination', 'Network' the line's text contains.   *)
(***************************************************************************)
Line(form, pat, dest, prefix, nh, intf, protocol, ad, metric, ips, has) ==
    [form |-> form, pat |-> pat, dest |-> dest, prefix |-> prefix, nh |-> nh,
     intf |-> intf, protocol |-> protocol, ad |-> ad, metric |-> metric,
     ips |-> ips, has |-> has]

STR_eth1 == <<"e","t","h","1">>
STR_Vlan10 == <<"V","l","a","n","1","0">>
STR_vlan999 == <<"v","l","a","n","9","9","9">>
STR_static == <<"s","t","a","t","i","c">>
STR_ospfc == <<"o","s","p","f",",">>
STR_isisc == STR_isis \o <<",">>
STR_O == <<"O"," ">>

ADDR_nh1 == <<10, 0, 0, 1>>
ADDR_nh2 == <<10, 0, 0, 2>>

\* 10.1.1.0/24, ubest/mbest: 1/0
LINE_H24 == Line("header", 0, <<10,1,1,0>>, 24, NoneAddr, None, None, NoneInt, NoneInt, <<>>, {","})
\* 0.0.0.0/0, ubest/mbest: 1/0
LINE_H0 == Line("header", 0, <<0,0,0,0>>, 0, NoneAddr, None, None, NoneInt, NoneInt, <<>>, {","})
\* *via 10.0.0.1, eth1, [1/0], 01w, static
LINE_V1 == Line("via", 1, <<>>, 0, ADDR_nh1, STR_eth1, STR_static, 1, 0, <<>>, {","})
\* *via 10.0.0.2%overlay-1, [115/64], 01w, ospf, internal
LINE_V2 == Line("via", 2, <<>>, 0, ADDR_nh2, None, STR_ospfc, 115, 64, <<>>, {","})
\* *via 10.0.0.1, eth1, [115/64], 04w00d, isis-isis_infra, isis-l1-ext
LINE_VI == Line("via", 1, <<>>, 0, ADDR_nh1, STR_eth1, STR_isisc, 115, 64, <<>>, {","})
\* 10.3.3.5/24 via 10.0.0.1, Vlan10
LINE_L24 == Line("legacy", 1, <<10,3,3,5>>, 24, ADDR_nh1, STR_Vlan10, <<>>, NoneInt, NoneInt, <<>>, {","})
\* 0.0.0.0/0 10.0.0.1
LINE_L0 == Line("legacy", 3, <<0,0,0,0>>, 0, ADDR_nh1, None, None, NoneInt, NoneInt, <<>>, {})
\* O 10.3.0.0/16 [110/20] via 10.0.0.2, 00:30:17, eth1
LINE_LB16 == Line("legacy", 2, <<10,3,0,0>>, 16, ADDR_nh2, STR_eth1, STR_O, 110, 20, <<>>, {","})
\* 10.3.3.0/40 via 10.0.0.1
LINE_L40 == Line("legacy", 1, <<10,3,3,0>>, 40, ADDR_nh1, None, <<>>, NoneInt, NoneInt, <<>>, {})
\* 10.4.0.0/16 is directly connected
LINE_G1 == Line("generic", 0, <<>>, 0, NoneAddr, None, None, NoneInt, NoneInt,
                <<[addr |-> <<10,4,0,0>>, prefix |-> 16]>>, {})
\* host 10.5.5.5 gateway 10.0.0.1
LINE_G2 == Line("generic", 0, <<>>, 0, NoneAddr, None, None, NoneInt, NoneInt,
                <<[addr |-> <<10,5,5,5>>, prefix |-> NoneInt],
                  [addr |-> ADDR_nh1, prefix |-> NoneInt]>>, {})
\* a blank line, a '#' or '!' comment, a banner
LINE_SKIP == Line("skip", 0, <<>>, 0, NoneAddr, None, None, NoneInt, NoneInt, <<>>, {})
\* Network Destination unreachable
LINE_WORDS == Line("generic", 0, <<>>, 0, NoneAddr, None, None, NoneInt, NoneInt, <<>>, {"Destination", "Network"})
\* a line no pattern matches
LINE_JUNK == Line("generic", 0, <<>>, 0, NoneAddr, None, None, NoneInt, NoneInt, <<>>, {})

TextLines == {LINE_H24, LINE_H0, LINE_V1, LINE_V2, LINE_VI,
              LINE_L24, LINE_L0, LINE_LB16, LINE_L40, LINE_G1, LINE_G2,
              LINE_SKIP, LINE_WORDS, LINE_JUNK}

(***************************************************************************)
(* RouteParser: the line parsers.  An Optional[Route] is <<>> or <<r>>.    *)
(***************************************************************************)
\* groups.get('protocol', '').strip() or None
LegacyProtocol(line) ==
    IF line.pat = 3 THEN None
    ELSE IF Strip(line.protocol) = <<>> THEN None ELSE Strip(line.protocol)

_parse_cisco_route_line(line) ==
    CASE line.form = "header" ->
            <<Route(line.dest, line.prefix, NoneAddr, None, None, NoneInt, NoneInt)>>
      [] line.form = "via" ->
            <<Route(<<>>, 0, line.nh, line.intf, line.protocol, line.metric, line.ad)>>
      [] line.form = "legacy" ->
            <<Route(line.dest, line.prefix, line.nh, line.intf,
                    LegacyProtocol(line), line.metric, line.ad)>>
      [] OTHER -> <<>>

_parse_generic_route_line(line) ==
    IF Len(line.ips) >= 1
    THEN LET dest_ip == line.ips[1]
             prefix_length == IF dest_ip.prefix # NoneInt THEN dest_ip.prefix ELSE 32
             next_hop == IF Len(line.ips) > 1 THEN line.ips[2].addr ELSE NoneAddr
         IN  <<Route(dest_ip.addr, prefix_length, next_hop, None, None, NoneInt, NoneInt)>>
    ELSE <<>>

\* _parse_cisco_route_line(line) or _parse_generic_route_line(line)
ParseLine(line) ==
    IF _parse_cisco_route_line(line) # <<>>
    THEN _parse_cisco_route_line(line)
    ELSE _parse_generic_route_line(line)

(***************************************************************************)
(* _parse_text: one iteration of the loop over the lines.  The loop state  *)
(* is [routes, current_destination, current_prefix]; did records which     *)
(* branch the line took.                                                   *)
(***************************************************************************)
LoopState(rs, cd, cp, did) ==
    [routes |-> rs, current_destination |-> cd, current_prefix |-> cp, did |-> did]

\* route.destination and route.prefix_length and not route.next_hop
IsNexusHeader(route) ==
    TruthyAddr(route.destination) /\ route.prefix_length # 0 /\ ~TruthyAddr(route.next_hop)

\* route.next_hop and not route.destination and current_destination
IsViaLine(route, cd) ==
    TruthyAddr(route.next_hop) /\ ~TruthyAddr(route.destination) /\ TruthyAddr(cd)

\* route.destination and route.prefix_length
IsCompleteRoute(route) ==
    TruthyAddr(route.destination) /\ route.prefix_length # 0

HeaderBranch(rs, cd, cp, route) ==
    LoopState(rs, route.destination, route.prefix_length, "header")

ViaBranch(rs, cd, cp, route) ==
    LoopState(Append(rs, [route EXCEPT !.destination = cd, !.prefix_length = cp]),
              cd, cp, "via")

\* CompleteBranch without the reset of the pending header
CompleteBranch_no_reset(rs, cd, cp, route) ==
    [routes |-> Append(rs, route), current_destination |-> cd,
     current_prefix |-> cp, did |-> "complete"]

CompleteBranch(rs, cd, cp, route) ==
    LoopState(Append(rs, route), NoneAddr, NoneInt, "complete")

TextStep(rs, cd, cp, line) ==
    IF line.form = "skip" THEN LoopState(rs, cd, cp, "skipped")
    ELSE IF ParseLine(line) = <<>> THEN LoopState(rs, cd, cp, "nomatch")
    ELSE LET route == ParseLine(line)[1]
         IN  IF IsIsisInfra(route) THEN LoopState(rs, cd, cp, "suppressed")
             ELSE IF IsNexusHeader(route) THEN HeaderBranch(rs, cd, cp, route)
             ELSE IF IsViaLine(route, cd) THEN ViaBranch(rs, cd, cp, route)
             ELSE IF IsCompleteRoute(route) THEN CompleteBranch(rs, cd, cp, route)
             ELSE LoopState(rs, cd, cp, "dropped")

(***************************************************************************)
(* Records handed to _parse_route_dict (a decoded JSON object or a tabular *)
(* row).  Every candidate key is a field of the record; t = "absent" says  *)
(* the key is not in the mapping.                                          *)
(*   destination keys: t = "falsy" (None, '', 0) or "str": the address,    *)
(*     slash (the text contains '/'), suffix_int (the part after '/' is an *)
(*     integer) and suffix (its value)                                     *)
(*   mask keys: t = "null", "dotted" (octets), "int" (n) or "bad" (text    *)
(*     for which the conversion raises)                                    *)
(*   next-hop keys: t = "falsy" or "str" (addr)                            *)
(*   interface and protocol keys: t = "falsy" or "str" (s)                 *)
(*   metric keys: t = "null", "int" (a JSON number n), "digits" (text of   *)
(*     ASCII digits, value n), "text" (text with a non-digit) or           *)
(*     "superscript" (text such as the superscript two, for which          *)
(*     str.isdigit() is true and int() raises ValueError)                  *)
(***************************************************************************)
dest_fields == <<"destination", "network", "dest", "subnet", "prefix">>
mask_fields == <<"mask", "prefix_length", "prefixlen", "netmask">>
nh_fields == <<"next_hop", "nexthop", "gateway", "via">>
int_fields == <<"interface", "intf", "egress_intf", "outgoing_interface">>
proto_fields == <<"protocol", "proto", "source">>

AbsentDest == [t |-> "absent", addr |-> <<>>, slash |-> FALSE, suffix_int |-> FALSE, suffix |-> 0]
AbsentMask == [t |-> "absent", octets |-> <<>>, n |-> 0]
AbsentAddr == [t |-> "absent", addr |-> <<>>]
AbsentStr == [t |-> "absent", s |-> <<>>]
AbsentNum == [t |-> "absent", n |-> 0]

DestCidr(addr, suffix) == [t |-> "str", addr |-> addr, slash |-> TRUE, suffix_int |-> TRUE, suffix |-> suffix]
DestPlain(addr) == [t |-> "str", addr |-> addr, slash |-> FALSE, suffix_int |-> FALSE, suffix |-> 0]
MaskDotted(octets) == [t |-> "dotted", octets |-> octets, n |-> 0]
MaskInt(n) == [t |-> "int", octets |-> <<>>, n |-> n]
AddrStr(addr) == [t |-> "str", addr |-> addr]
Str(s) == [t |-> "str", s |-> s]
Num(t, n) == [t |-> t, n |-> n]

\* {} : no candidate key present; object = FALSE for a JSON array item that is no object
EmptyDict ==
    [object |-> TRUE,
     destination |-> AbsentDest, network |-> AbsentDest, dest |-> AbsentDest,
     subnet |-> AbsentDest, prefix |-> AbsentDest,
     mask |-> AbsentMask, prefix_length |-> AbsentMask, prefixlen |-> AbsentMask,
     netmask |-> AbsentMask,
     next_hop |-> AbsentAddr, nexthop |-> AbsentAddr, gateway |-> AbsentAddr,
     via |-> AbsentAddr,
     interface |-> AbsentStr, intf |-> AbsentStr, egress_intf |-> AbsentStr,
     outgoing_interface |-> AbsentStr,
     protocol |-> AbsentStr, proto |-> AbsentStr, source |-> AbsentStr,
     metric |-> AbsentNum, cost |-> AbsentNum, admin_distance |-> AbsentNum,
     ad |-> AbsentNum]

\* field in data and data[field]
PresentTruthy(data, field) == data[field].t \notin {"absent", "falsy"}

\* the first candidate key, in list order, that is present and truthy (0 if none)
FirstField(data, fields) ==
    IF \E i \in 1..Len(fields) : PresentTruthy(data, fields[i])
    THEN CHOOSE i \in 1..Len(fields) :
            /\ PresentTruthy(data, fields[i])
            /\ \A j \in 1..(i - 1) : ~PresentTruthy(data, fields[j])
    ELSE 0

\* bin(n).count('1')
RECURSIVE PopCount(_)
PopCount(n) == IF n = 0 THEN 0 ELSE (n % 2) + PopCount(n \div 2)

RECURSIVE SumPopCount(_)
SumPopCount(octets) ==
    IF octets = <<>> THEN 0 ELSE PopCount(Head(octets)) + SumPopCount(Tail(octets))

\* field in data and data[field] is not None, and the conversion does not raise
MaskUsable(data, field) == data[field].t \in {"dotted", "int"}

\* the loop over mask_fields, then the default of 32
MaskPrefixLength(data) ==
    IF \E i \in 1..Len(mask_fields) : MaskUsable(data, mask_fields[i])
    THEN LET i == CHOOSE i \in 1..Len(mask_fields) :
                    /\ MaskUsable(data, mask_fields[i])
                    /\ \A j \in 1..(i - 1) : ~MaskUsable(data, mask_fields[j])
             v == data[mask_fields[i]]
         IN  IF v.t = "dotted" THEN SumPopCount(v.octets) ELSE v.n
    ELSE 32

\* destination and prefix_length after the CIDR / mask handling
DictSubnet(data) ==
    LET v == data[dest_fields[FirstField(data, dest_fields)]]
    IN  IF v.slash
        THEN IF v.suffix_int /\ ValidNetwork(v.addr, v.suffix)
             THEN <<NetworkAddress(v.addr, v.suffix), v.suffix>>
             ELSE <<v.addr, IF v.suffix_int THEN v.suffix ELSE 32>>
        ELSE <<v.addr, MaskPrefixLength(data)>>

\* truthiness of a metric value
NumTruthy(v) ==
    CASE v.t \in {"absent", "null"} -> FALSE
      [] v.t = "int" -> v.n # 0
      [] OTHER -> TRUE

\* data.get(a) or data.get(b)
GetOr(data, a, b) == IF NumTruthy(data[a]) THEN data[a] ELSE data[b]

\* str(v).isdigit()
IsDigit(v) ==
    CASE v.t = "int" -> v.n >= 0
      [] v.t \in {"digits", "superscript"} -> TRUE
      [] OTHER -> FALSE

\* int(v) raises ValueError
IntRaises(v) == v.t = "superscript"

\* int(v) if v and str(v).isdigit() else None
NumOrNone(v) == IF NumTruthy(v) /\ IsDigit(v) THEN v.n ELSE NoneInt

\* _parse_route_dict raises (the int() of a value str.isdigit() accepts)
DictRaises(data) ==
    /\ FirstField(data, dest_fields) # 0
    /\ \/ LET m == GetOr(data, "metric", "cost")
          IN  NumTruthy(m) /\ IsDigit(m) /\ IntRaises(m)
       \/ LET a == GetOr(data, "admin_distance", "ad")
          IN  NumTruthy(a) /\ IsDigit(a) /\ IntRaises(a)

\* the Optional[Route] _parse_route_dict returns when it does not raise
_parse_route_dict(data) ==
    IF FirstField(data, dest_fields) = 0 THEN <<>>
    ELSE LET sn == DictSubnet(data)
             nh == FirstField(data, nh_fields)
             itf == FirstField(data, int_fields)
             pr == FirstField(data, proto_fields)
         IN  <<Route(sn[1], sn[2],
                     IF nh = 0 THEN NoneAddr ELSE data[nh_fields[nh]].addr,
                     IF itf = 0 THEN None ELSE Strip(data[int_fields[itf]].s),
                     IF pr = 0 THEN None ELSE Strip(data[proto_fields[pr]].s),
                     NumOrNone(GetOr(data, "metric", "cost")),
                     NumOrNone(GetOr(data, "admin_distance", "ad")))>>

(***************************************************************************)
(* JSON items and tabular rows                                             *)
(***************************************************************************)
\* {"destination": "10.1.1.5/24", "next_hop": "10.0.0.1", "interface": "Vlan10",
\*  "protocol": "static", "metric": 5}
ITEM_ROUTE ==
    [EmptyDict EXCEPT !.destination = DestCidr(<<10,1,1,5>>, 24),
                      !.next_hop = AddrStr(ADDR_nh1),
                      !.interface = Str(STR_Vlan10),
                      !.protocol = Str(STR_static),
                      !.metric = Num("int", 5)]
\* {"network": "10.2.0.0", "mask": "255.255.0.0", "proto": "isis-isis_infra,"}
ITEM_ISIS ==
    [EmptyDict EXCEPT !.network = DestPlain(<<10,2,0,0>>),
                      !.mask = MaskDotted(<<255,255,0,0>>),
                      !.proto = Str(STR_isisc)]
\* {"protocol": "static"}
ITEM_NODEST == [EmptyDict EXCEPT !.protocol = Str(STR_static)]
\* 5
ITEM_SCALAR == [EmptyDict EXCEPT !.object = FALSE]
\* {"destination": "999.1.1.1/24", "gateway": "10.0.0.2"}
ITEM_BADADDR ==
    [EmptyDict EXCEPT !.destination = DestCidr(<<999,1,1,1>>, 24),
                      !.gateway = AddrStr(ADDR_nh2)]
\* {"destination": "10.6.0.0/16", "metric": "²"}
ITEM_SUPERSCRIPT ==
    [EmptyDict EXCEPT !.destination = DestCidr(<<10,6,0,0>>, 16),
                      !.metric = Num("superscript", 2)]

\* {"destination": "10.1.1.0/40"}
ITEM_PREFIX40 == [EmptyDict EXCEPT !.destination = DestCidr(<<10,1,1,0>>, 40)]
\* {"destination": "10.7.0.0/16", "metric": 0, "cost": 7, "admin_distance": 0}
ITEM_ZERO ==
    [EmptyDict EXCEPT !.destination = DestCidr(<<10,7,0,0>>, 16),
                      !.metric = Num("int", 0),
                      !.cost = Num("int", 7),
                      !.admin_distance = Num("int", 0)]

JsonItems == {ITEM_ROUTE, ITEM_ISIS, ITEM_NODEST, ITEM_SCALAR, ITEM_BADADDR,
              ITEM_SUPERSCRIPT, ITEM_PREFIX40, ITEM_ZERO}

\* destination,protocol,metric / 10.1.1.0/24,"ospf,",7
ROW_ROUTE ==
    [EmptyDict EXCEPT !.destination = DestCidr(<<10,1,1,0>>, 24),
                      !.protocol = Str(STR_ospfc),
                      !.metric = Num("digits", 7)]
\* a row whose protocol cell is isis-isis_infra
ROW_ISIS ==
    [EmptyDict EXCEPT !.destination = DestCidr(<<10,2,0,0>>, 16),
                      !.protocol = Str(STR_isis)]
\* a row under a header with no recognised destination column (e.g. "Destination")
ROW_NODEST == [EmptyDict EXCEPT !.protocol = Str(STR_static)]
\* a row whose metric cell is the superscript two
ROW_SUPERSCRIPT ==
    [EmptyDict EXCEPT !.destination = DestCidr(<<10,6,0,0>>, 16),
                      !.metric = Num("superscript", 2)]

\* a row whose metric cell is 0 and whose ad cell is 'n/a'
ROW_ZERO ==
    [EmptyDict EXCEPT !.destination = DestCidr(<<10,7,0,0>>, 16),
                      !.metric = Num("digits", 0),
                      !.ad = Num("text", 0)]

CsvRows == {ROW_ROUTE, ROW_ISIS, ROW_NODEST, ROW_SUPERSCRIPT, ROW_ZERO}

(***************************************************************************)
(* File content: what parse_file and json.loads read of it.                *)
(*   first  the first character of content.strip(): "{", "[" or another    *)
(*   comma, hasDestination, hasNetwork: ',' / 'Destination' / 'Network'    *)
(*     in content                                                          *)
(*   doc    what json.loads makes of it: kind "invalid" (JSONDecodeError), *)
(*     "array" or "object"; for an object, what each of the four keys      *)
(*     holds: "absent", "array" or "other"                                 *)
(***************************************************************************)
json_keys == <<"routes", "entries", "data", "routing_table">>

NoKeys == [routes |-> "absent", entries |-> "absent", data |-> "absent",
           routing_table |-> "absent"]
NoDoc == [kind |-> "none", keys |-> NoKeys]

Keys(k1, k2, k3, k4) ==
    [routes |-> k1, entries |-> k2, data |-> k3, routing_table |-> k4]

Docs ==
    {[kind |-> "invalid", keys |-> NoKeys], [kind |-> "array", keys |-> NoKeys]}
    \cup {[kind |-> "object", keys |-> k] :
            k \in {NoKeys,
                   Keys("array", "absent", "absent", "absent"),
                   Keys("absent", "array", "absent", "absent"),
                   Keys("absent", "absent", "array", "absent"),
                   Keys("absent", "absent", "absent", "array"),
                   Keys("other", "array", "absent", "absent"),
                   Keys("other", "absent", "absent", "absent")}}

Content(first, comma, hasDestination, hasNetwork, doc) ==
    [first |-> first, comma |-> comma, hasDestination |-> hasDestination,
     hasNetwork |-> hasNetwork, doc |-> doc]

\* an array starts with '[', an object with '{'; an invalid document with either
JsonContents ==
    {c \in {Content(first, FALSE, FALSE, FALSE, doc) :
                first \in {"{", "["}, doc \in Docs} :
        /\ c.doc.kind = "array" => c.first = "["
        /\ c.doc.kind = "object" => c.first = "{"}
    \cup {Content("[", TRUE, TRUE, FALSE, [kind |-> "array", keys |-> NoKeys]),
          Content("{", TRUE, FALSE, TRUE, [kind |-> "invalid", keys |-> NoKeys])}

\* content that does not start with '{' or '['
PlainContents ==
    {Content("x", FALSE, FALSE, FALSE, NoDoc),
     Content("x", TRUE, FALSE, FALSE, NoDoc),
     Content("x", FALSE, TRUE, TRUE, NoDoc),
     Content("x", TRUE, TRUE, FALSE, NoDoc),
     Content("x", TRUE, TRUE, TRUE, NoDoc),
     Content("x", TRUE, FALSE, TRUE, NoDoc)}

Contents == JsonContents \cup PlainContents

NoContent == Content("", FALSE, FALSE, FALSE, NoDoc)

(***************************************************************************)
(* RouteParser.parse_file and the three strategies                         *)
(***************************************************************************)
\* DetectFormat with the tabular test ahead of the JSON test
DetectFormat_tabular_first(c) ==
    IF c.comma /\ (c.hasDestination \/ c.hasNetwork) THEN "csv"
    ELSE IF c.first = "{" \/ c.first = "[" THEN "json"
    ELSE "text"

\* the if / elif / else of parse_file
DetectFormat(c) ==
    IF c.first = "{" \/ c.first = "[" THEN "json"
    ELSE IF c.comma /\ (c.hasDestination \/ c.hasNetwork) THEN "csv"
    ELSE "text"

\* route_data after the loop over the four keys: "array" when it is a list
RouteData(doc) ==
    IF doc.kind = "object"
    THEN IF \E i \in 1..Len(json_keys) : doc.keys[json_keys[i]] # "absent"
         THEN LET i == CHOOSE i \in 1..Len(json_keys) :
                         /\ doc.keys[json_keys[i]] # "absent"
                         /\ \A j \in 1..(i - 1) : doc.keys[json_keys[j]] = "absent"
              IN  doc.keys[json_keys[i]]
         ELSE "other"
    ELSE doc.kind

\* what one record does to the route list: the Optional[Route] after the ISIS filter
DictStep(data) ==
    IF ~data.object THEN <<>>
    ELSE IF _parse_route_dict(data) = <<>> THEN <<>>
    ELSE IF IsIsisInfra(_parse_route_dict(data)[1]) THEN <<>>
    ELSE _parse_route_dict(data)

NoLast == [did |-> "none", pending |-> NoneAddr]

ParseInit ==
    /\ content = NoContent
    /\ called = {}
    /\ routes = <<>>
    /\ current_destination = NoneAddr
    /\ current_prefix = NoneInt
    /\ input = <<>>
    /\ src = <<>>
    /\ last = NoLast

\* parse_file: read the content and pick the strategy
ParseFile ==
    /\ pc = "start"
    /\ \E c \in Contents :
        /\ content' = c
        /\ called' = {DetectFormat(c)}
        /\ pc' = DetectFormat(c)
    /\ UNCHANGED <<routes, current_destination, current_prefix, input, src, last>>
    /\ UNCHANGED compareVars

\* _parse_json: json.loads and the choice of route_data
JsonLoads ==
    /\ pc = "json"
    /\ pc' = IF content.doc.kind # "invalid" /\ RouteData(content.doc) = "array"
             THEN "json_items" ELSE "done"
    /\ UNCHANGED parseVars
    /\ UNCHANGED compareVars

\* the history of one record read by the JSON or tabular strategy
DictHistory(data) ==
    /\ input' = Append(input, data)
    /\ src' = IF DictStep(data) # <<>> THEN Append(src, Len(input) + 1) ELSE src
    /\ last' = [did |-> IF DictStep(data) # <<>> THEN "complete" ELSE "dropped",
                pending |-> NoneAddr]

\* _parse_json: one iteration of the loop over route_data
JsonItem ==
    /\ pc = "json_items"
    /\ Len(input) < MaxUnits
    /\ \E item \in JsonItems :
        IF item.object /\ DictRaises(item)
        THEN /\ pc' = "raised"
             /\ input' = Append(input, item)
             /\ UNCHANGED <<routes, src, last>>
        ELSE /\ routes' = routes \o DictStep(item)
             /\ DictHistory(item)
             /\ UNCHANGED pc
    /\ UNCHANGED <<content, called, current_destination, current_prefix>>
    /\ UNCHANGED compareVars

\* _parse_csv: one iteration of the loop over the reader's rows
CsvRow ==
    /\ pc = "csv"
    /\ Len(input) < MaxUnits
    /\ \E row \in CsvRows :
        IF DictRaises(row)
        THEN /\ pc' = "raised"
             /\ input' = Append(input, row)
             /\ UNCHANGED <<routes, src, last>>
        ELSE /\ routes' = routes \o DictStep(row)
             /\ DictHistory(row)
             /\ UNCHANGED pc
    /\ UNCHANGED <<content, called, current_destination, current_prefix>>
    /\ UNCHANGED compareVars

\* what the lines read so far contain of ',', 'Destination', 'Network'
RECURSIVE HasOf(_)
HasOf(lines) == IF lines = <<>> THEN {} ELSE Head(lines).has \cup HasOf(Tail(lines))

\* what the content contains of them
ContentHas(c) ==
    {w \in {",", "Destination", "Network"} :
        \/ w = "," /\ c.comma
        \/ w = "Destination" /\ c.hasDestination
        \/ w = "Network" /\ c.hasNetwork}

\* _parse_text: one iteration of the loop over the lines
TextLine ==
    /\ pc = "text"
    /\ Len(input) < MaxUnits
    /\ \E line \in TextLines :
        LET st == TextStep(routes, current_destination, current_prefix, line)
        IN  /\ line.has \subseteq ContentHas(content)
            /\ routes' = st.routes
            /\ current_destination' = st.current_destination
            /\ current_prefix' = st.current_prefix
            /\ input' = Append(input, line)
            /\ src' = IF Len(st.routes) > Len(routes)
                      THEN Append(src, Len(input) + 1) ELSE src
            /\ last' = [did |-> st.did, pending |-> current_destination]
    /\ UNCHANGED <<pc, content, called>>
    /\ UNCHANGED compareVars

\* the end of the input: the strategy returns routes
Return ==
    /\ pc \in {"json_items", "csv", "text"}
    /\ pc = "text" => HasOf(input) = ContentHas(content)
    /\ pc' = "done"
    /\ UNCHANGED parseVars
    /\ UNCHANGED compareVars

CompareIdle ==
    /\ raw_pre = <<>>
    /\ raw_post = <<>>
    /\ all_pre_routes = <<>>
    /\ all_post_routes = <<>>
    /\ pre_routes = <<>>
    /\ pre_route_details = <<>>
    /\ post_routes = <<>>
    /\ post_route_details = <<>>
    /\ comparison = <<>>

Init ==
    /\ pc = "start"
    /\ ParseInit
    /\ CompareIdle

Next ==
    \/ ParseFile
    \/ JsonLoads
    \/ JsonItem
    \/ CsvRow
    \/ TextLine
    \/ Return

\* RouteParser.parse_file on one existing file
Spec == Init /\ [][Next]_vars

(***************************************************************************)
(* RouteComparator.  A dict is a function on its keys; compare()'s four    *)
(* lists are built by iterating over sets of subnets, one element per      *)
(* subnet in an order the program does not fix, and are kept as sets.      *)
(***************************************************************************)
Raw(destination, prefix_length, next_hop, interface, protocol, metric, admin_distance) ==
    [destination |-> destination, prefix_length |-> prefix_length,
     next_hop |-> next_hop, interface |-> interface, protocol |-> protocol,
     metric |-> metric, admin_distance |-> admin_distance]

\* the constructor arguments of the routes handed to the comparator
RAW_A == Raw(<<10,1,1,0>>, 24, ADDR_nh1, STR_Vlan10, STR_static, 0, 1)
RAW_B == Raw(<<10,1,1,0>>, 24, ADDR_nh1, STR_vlan999, STR_static, 0, 1)
RAW_C == Raw(<<10,1,1,7>>, 24, ADDR_nh2, STR_eth1, STR_ospfc, 64, 115)
RAW_D == Raw(<<10,2,0,0>>, 16, ADDR_nh1, STR_eth1, STR_static, 0, 1)
RAW_E == Raw(<<10,1,1,0>>, 24, ADDR_nh1, STR_Vlan10, STR_static, 5, 1)

RawRoutes == {RAW_A, RAW_B, RAW_C, RAW_D, RAW_E}

\* the Route a parser constructs from the arguments
MkRoute(raw) ==
    Route(raw.destination, raw.prefix_length, raw.next_hop, raw.interface,
          raw.protocol, raw.metric, raw.admin_distance)

MkRoutes(raws) == [i \in 1..Len(raws) |-> MkRoute(raws[i])]

\* the sequences over S of length at most n
SeqsUpTo(S, n) == UNION {[1..k -> S] : k \in 0..n}

SubnetsOf(rs) == {subnet(rs[i]) : i \in 1..Len(rs)}

\* __init__: subnet -> the first route of the sequence with that subnet
IndexFirst(rs) ==
    [sn \in SubnetsOf(rs) |->
        rs[CHOOSE i \in 1..Len(rs) :
            /\ subnet(rs[i]) = sn
            /\ \A j \in 1..(i - 1) : subnet(rs[j]) # sn]]

RECURSIVE WithSubnet(_, _)
WithSubnet(rs, sn) ==
    IF rs = <<>> THEN <<>>
    ELSE IF subnet(Head(rs)) = sn THEN <<Head(rs)>> \o WithSubnet(Tail(rs), sn)
    ELSE WithSubnet(Tail(rs), sn)

\* IndexDetails keeping a detail list only for a subnet with several routes
IndexDetails_multipath_only(rs) ==
    [sn \in {x \in SubnetsOf(rs) : Len(WithSubnet(rs, x)) > 1} |-> WithSubnet(rs, sn)]

\* __init__: subnet -> all the routes of the sequence with that subnet, in order
IndexDetails(rs) == [sn \in SubnetsOf(rs) |-> WithSubnet(rs, sn)]

\* nh_key
NhKey(route) == <<route.next_hop, route.interface, route.protocol>>

\* the set of nh_key over a list of routes
NextHops(rs) == {NhKey(rs[i]) : i \in 1..Len(rs)}

\* the fallback comparison of the two representatives
SimpleEqual(route1, route2) ==
    /\ route1.destination = route2.destination
    /\ route1.prefix_length = route2.prefix_length
    /\ route1.next_hop = route2.next_hop
    /\ route1.interface = route2.interface
    /\ route1.protocol = route2.protocol

\* _routes_equal comparing only the two first-seen representatives
_routes_equal_first_only(pre_details, post_details, route1, route2) ==
    SimpleEqual(route1, route2)

\* _routes_equal accepting a post side that merely covers the pre side
_routes_equal_subset(pre_details, post_details, route1, route2) ==
    LET sn == subnet(route1)
    IN  IF sn \in DOMAIN pre_details /\ sn \in DOMAIN post_details
        THEN /\ Len(pre_details[sn]) = Len(post_details[sn])
             /\ NextHops(pre_details[sn]) \subseteq NextHops(post_details[sn])
        ELSE SimpleEqual(route1, route2)

_routes_equal(pre_details, post_details, route1, route2) ==
    LET sn == subnet(route1)
    IN  IF sn \in DOMAIN pre_details /\ sn \in DOMAIN post_details
        THEN /\ Len(pre_details[sn]) = Len(post_details[sn])
             /\ NextHops(pre_details[sn]) = NextHops(post_details[sn])
        ELSE SimpleEqual(route1, route2)

\* one line of the 'changes' list; the text is formatted from these parts
Change(kind, before, after, key) ==
    [kind |-> kind, before |-> before, after |-> after, key |-> key]

NoKey == <<NoneAddr, None, None>>

\* _get_route_differences without the line for a changed number of paths
_get_route_differences_no_count(pre_details, post_details, pre_route, post_route) ==
    LET sn == subnet(pre_route)
    IN  {Change("Removed path", 0, 0, k) :
            k \in NextHops(pre_details[sn]) \ NextHops(post_details[sn])}
        \cup {Change("Added path", 0, 0, k) :
                k \in NextHops(post_details[sn]) \ NextHops(pre_details[sn])}

_get_route_differences(pre_details, post_details, pre_route, post_route) ==
    LET sn == subnet(pre_route)
    IN  IF sn \in DOMAIN pre_details /\ sn \in DOMAIN post_details
        THEN LET pre_nexthops == NextHops(pre_details[sn])
                 post_nexthops == NextHops(post_details[sn])
             IN  (IF Len(pre_details[sn]) # Len(post_details[sn])
                  THEN {Change("Number of paths", Len(pre_details[sn]),
                               Len(post_details[sn]), NoKey)}
                  ELSE {})
                 \cup {Change("Removed path", 0, 0, k) : k \in pre_nexthops \ post_nexthops}
                 \cup {Change("Added path", 0, 0, k) : k \in post_nexthops \ pre_nexthops}
        ELSE (IF pre_route.next_hop # post_route.next_hop
              THEN {Change("Next hop", 0, 0, <<pre_route.next_hop, None, None>>)} ELSE {})
             \cup (IF pre_route.interface # post_route.interface
                   THEN {Change("Interface", 0, 0, <<NoneAddr, pre_route.interface, None>>)}
                   ELSE {})
             \cup (IF pre_route.protocol # post_route.protocol
                   THEN {Change("Protocol", 0, 0, <<NoneAddr, None, pre_route.protocol>>)}
                   ELSE {})
             \cup (IF pre_route.metric # post_route.metric
                   THEN {Change("Metric", pre_route.metric, post_route.metric, NoKey)}
                   ELSE {})
             \cup (IF pre_route.admin_distance # post_route.admin_distance
                   THEN {Change("Admin distance", pre_route.admin_distance,
                                post_route.admin_distance, NoKey)}
                   ELSE {})

\* compare(): the four lists
MissingRoutes(pre, post) == {pre[sn] : sn \in DOMAIN pre \ DOMAIN post}

\* AddedRoutes without the set difference
AddedRoutes_all_post(pre, post) == {post[sn] : sn \in DOMAIN post}

AddedRoutes(pre, post) == {post[sn] : sn \in DOMAIN post \ DOMAIN pre}

UnchangedRoutes(pre, pre_details, post, post_details) ==
    {pre[sn] : sn \in {x \in DOMAIN pre \cap DOMAIN post :
                        _routes_equal(pre_details, post_details, pre[x], post[x])}}

ChangedRoutes(pre, pre_details, post, post_details) ==
    {[subnet |-> sn, pre |-> pre[sn], post |-> post[sn],
      changes |-> _get_route_differences(pre_details, post_details, pre[sn], post[sn])] :
        sn \in {x \in DOMAIN pre \cap DOMAIN post :
                  ~_routes_equal(pre_details, post_details, pre[x], post[x])}}

compare(pre, pre_details, post, post_details) ==
    LET missing_routes == MissingRoutes(pre, post)
        added_routes == AddedRoutes(pre, post)
        changed_routes == ChangedRoutes(pre, pre_details, post, post_details)
        unchanged_routes == UnchangedRoutes(pre, pre_details, post, post_details)
    IN  [summary |-> [total_pre_routes |-> Cardinality(DOMAIN pre),
                      total_post_routes |-> Cardinality(DOMAIN post),
                      missing_routes |-> Cardinality(missing_routes),
                      added_routes |-> Cardinality(added_routes),
                      changed_routes |-> Cardinality(changed_routes),
                      unchanged_routes |-> Cardinality(unchanged_routes)],
         missing_routes |-> missing_routes,
         added_routes |-> added_routes,
         changed_routes |-> changed_routes,
         unchanged_routes |-> unchanged_routes]

\* two route sequences, as the parsers constructed them, handed to RouteComparator
InitCompare ==
    /\ pc = "new"
    /\ ParseInit
    /\ raw_pre \in SeqsUpTo(RawRoutes, MaxRoutes)
    /\ raw_post \in SeqsUpTo(RawRoutes, MaxRoutes)
    /\ all_pre_routes = MkRoutes(raw_pre)
    /\ all_post_routes = MkRoutes(raw_post)
    /\ pre_routes = <<>>
    /\ pre_route_details = <<>>
    /\ post_routes = <<>>
    /\ post_route_details = <<>>
    /\ comparison = <<>>

\* RouteComparator.__init__
ComparatorInit ==
    /\ pc = "new"
    /\ pc' = "ready"
    /\ pre_routes' = IndexFirst(all_pre_routes)
    /\ pre_route_details' = IndexDetails(all_pre_routes)
    /\ post_routes' = IndexFirst(all_post_routes)
    /\ post_route_details' = IndexDetails(all_post_routes)
    /\ UNCHANGED <<raw_pre, raw_post, all_pre_routes, all_post_routes, comparison>>
    /\ UNCHANGED parseVars

\* RouteComparator.compare
Compare ==
    /\ pc = "ready"
    /\ pc' = "compared"
    /\ comparison' = compare(pre_routes, pre_route_details, post_routes, post_route_details)
    /\ UNCHANGED <<raw_pre, raw_post, all_pre_routes, all_post_routes, pre_routes,
                   pre_route_details, post_routes, post_route_details>>
    /\ UNCHANGED parseVars

NextCompare ==
    \/ ComparatorInit
    \/ Compare

\* RouteComparator on two route sequences
SpecCompare == InitCompare /\ [][NextCompare]_vars

(***************************************************************************)
(* Properties of the parsers                                               *)
(***************************************************************************)
\* the indices in routes of the routes the unit at index j of input emitted
EmittedBy(j) == {i \in 1..Len(src) : src[i] = j}

\* a '*via' continuation line that the ISIS filter does not suppress
IsOpenVia(line) == line.form = "via" /\ ~Contains(line.protocol, STR_isis)

\* the number of contiguous non-suppressed '*via' lines read from index j on
RECURSIVE ViaRun(_)
ViaRun(j) ==
    IF j <= Len(input) /\ IsOpenVia(input[j]) THEN 1 + ViaRun(j + 1) ELSE 0

\* the route emitted by line j carries destination/prefix of the subnet dest/prefix
CarriesSubnet(j, dest, prefix) ==
    /\ Cardinality(EmittedBy(j)) = 1
    /\ \A i \in EmittedBy(j) :
        /\ routes[i].destination = NormDestination(dest, prefix)
        /\ routes[i].prefix_length = prefix

\* C3: in _parse_text a two-line header D/P, for every P in 0..32, emits no
\* route itself, and each of the k contiguous non-suppressed '*via' lines after
\* it emits exactly one route carrying D and P of that header.
C3_HeaderRunCarriesHeader ==
    called = {"text"} =>
        \A h \in 1..Len(input) :
            (input[h].form = "header" /\ input[h].prefix \in 0..32) =>
                /\ EmittedBy(h) = {}
                /\ \A j \in (h + 1)..(h + ViaRun(h + 1)) :
                    CarriesSubnet(j, input[h].dest, input[h].prefix)

\* C4: in _parse_text a line in one of the legacy single-line formats emits
\* exactly one route carrying its own destination and prefix length, for every
\* prefix length in 0..32 and whatever header is pending.
C4_LegacyLineEmitsOwnRoute ==
    called = {"text"} =>
        \A j \in 1..Len(input) :
            (input[j].form = "legacy" /\ input[j].prefix \in 0..32) =>
                CarriesSubnet(j, input[j].dest, input[j].prefix)

\* the protocol a unit resolves to, before Route strips it
ResolvedProtocol(unit) ==
    IF called = {"text"}
    THEN IF unit.form = "via" THEN unit.protocol
         ELSE IF unit.form = "legacy" THEN LegacyProtocol(unit)
         ELSE None
    ELSE IF unit.object /\ FirstField(unit, proto_fields) # 0
         THEN unit[proto_fields[FirstField(unit, proto_fields)]].s
         ELSE None

\* the comparator run on two route lists
CompareLists(pre, post) ==
    compare(IndexFirst(pre), IndexDetails(pre), IndexFirst(post), IndexDetails(post))

\* the parsed list compared against nothing, against itself and against its
\* own tail, on either side
ComparisonsOfParsed ==
    LET rest == IF routes = <<>> THEN <<>> ELSE Tail(routes)
    IN  {CompareLists(routes, <<>>), CompareLists(<<>>, routes),
         CompareLists(routes, routes), CompareLists(routes, rest),
         CompareLists(rest, routes)}

\* every route a comparison result holds, in any bucket and on either side
BucketRoutes(c) ==
    c.missing_routes \cup c.added_routes \cup c.unchanged_routes
        \cup {ch.pre : ch \in c.changed_routes} \cup {ch.post : ch \in c.changed_routes}

\* every (next_hop, interface, protocol) triple a 'changes' list mentions
ChangeKeys(c) == {d.key : d \in UNION {ch.changes : ch \in c.changed_routes}}

IsisText(protocol) == protocol # None /\ Contains(protocol, STR_isis)

\* C5: no strategy adds a record whose resolved protocol contains
\* 'isis-isis_infra' to the route list: such a unit emits nothing, no route
\* of the list carries such a protocol, and so no bucket and no reported
\* path of a comparison of the parsed list carries one.
C5_IsisNeverParsed ==
    /\ \A i \in 1..Len(routes) : ~IsisText(routes[i].protocol)
    /\ \A j \in 1..Len(input) :
        IsisText(ResolvedProtocol(input[j])) => EmittedBy(j) = {}
    /\ \A c \in ComparisonsOfParsed :
        /\ \A r \in BucketRoutes(c) : ~IsisText(r.protocol)
        /\ \A k \in ChangeKeys(c) : ~IsisText(k[3])

\* an ISIS record was read and skipped and the records after it were still parsed
C5_Witness ==
    /\ pc = "done"
    /\ called = {"json"}
    /\ Len(input) >= 2
    /\ IsisText(ResolvedProtocol(input[1]))
    /\ Len(routes) = Len(input) - 1
    /\ \E c \in ComparisonsOfParsed : c.changed_routes # {}

\* the strategy the content calls for, as the three-way classification states it
ExpectedStrategy(c) ==
    CASE c.first \in {"{", "["} -> "json"
      [] c.first \notin {"{", "["} /\ c.comma /\ (c.hasDestination \/ c.hasNetwork) -> "csv"
      [] OTHER -> "text"

\* C6: parse_file runs exactly one strategy, the one the ordered three-way
\* classification of the content names; when that strategy yields nothing
\* (the JSON decoding fails) no other strategy runs and the result is empty.
C6_OneStrategyByContent ==
    /\ pc # "start" => called = {ExpectedStrategy(content)}
    /\ pc = "start" => called = {}
    /\ (pc \notin {"start", "json"} /\ content.doc.kind = "invalid") =>
            (pc = "done" /\ routes = <<>> /\ called = {"json"})

\* undecodable JSON that also looks tabular: the result is empty, nothing else ran
C6_Witness ==
    /\ pc = "done"
    /\ content.first = "{"
    /\ content.comma /\ content.hasNetwork
    /\ content.doc.kind = "invalid"
    /\ routes = <<>>
    /\ called = {"json"}

\* C7: parsing an existing file never ends in an error: a unit that yields no
\* route is skipped and every record that yields one still has it emitted.
C7_ParsingNeverRaises ==
    /\ pc # "raised"
    /\ called \in {{"json"}, {"csv"}} =>
        \A j \in 1..Len(input) : DictStep(input[j]) # <<>> => EmittedBy(j) # {}

\* C10 as stated: after any emission, by a complete single-line record or by a
\* continuation line, no header is pending.
C10_PendingClearedAfterAnyEmission ==
    last.did \in {"via", "complete"} =>
        (current_destination = NoneAddr /\ current_prefix = NoneInt)

\* C10 amended: a complete single-line record clears the pending header; a
\* continuation line leaves the header it completed pending, and the route it
\* emits carries that header's destination and prefix length.
C10_PendingClearedAfterCompleteOnly ==
    /\ last.did = "complete" =>
            (current_destination = NoneAddr /\ current_prefix = NoneInt)
    /\ last.did = "via" =>
            /\ TruthyAddr(current_destination)
            /\ current_destination = last.pending
            /\ routes[Len(routes)].destination = current_destination
            /\ routes[Len(routes)].prefix_length = current_prefix

\* a continuation route was emitted under a header, then a complete record
\* arrived while that header was still pending
C10_Witness ==
    /\ called = {"text"}
    /\ Len(routes) >= 2
    /\ last.did = "complete"
    /\ TruthyAddr(last.pending)
    /\ input[src[Len(src) - 1]].form = "via"

\* line k is a complete single-line record that emitted a route
EmittedComplete(k) == input[k].form # "via" /\ EmittedBy(k) # {}

\* a header-form line precedes line j with no emitted complete record between
HeaderFormBefore(j) ==
    \E h \in 1..(j - 1) :
        /\ input[h].form = "header"
        /\ \A k \in (h + 1)..(j - 1) : ~EmittedComplete(k)

\* C11: in _parse_text only a line of the two-line header form sets the
\* pending header, a legacy or generic line never does, and a '*via' line with
\* no header-form line before it since the start of the input or since the
\* last emitted complete record emits no route.
C11_OnlyHeaderFormSetsPending ==
    called = {"text"} =>
        /\ last.did = "header" => input[Len(input)].form = "header"
        /\ (Len(input) > 0 /\ input[Len(input)].form \in {"legacy", "generic"}) =>
                (current_destination = NoneAddr \/ current_destination = last.pending)
        /\ \A j \in 1..Len(input) :
            (input[j].form = "via" /\ ~HeaderFormBefore(j)) => EmittedBy(j) = {}

\* C12: every route a parsing strategy returns has a prefix length in 0..32.
C12_PrefixLengthInRange ==
    \A i \in 1..Len(routes) : routes[i].prefix_length \in 0..32

\* the field the value is taken from: the first one if the record has it
FieldOrElse(data, a, b) ==
    IF data[a].t \notin {"absent", "null"} THEN data[a] ELSE data[b]

\* the integer a value stands for when its string form is all digits
DigitsOrAbsent(v) ==
    IF (v.t = "int" /\ v.n >= 0) \/ v.t = "digits" THEN v.n ELSE NoneInt

\* C13: _parse_route_dict takes metric from 'metric', else 'cost', and
\* admin_distance from 'admin_distance', else 'ad'; the value is kept as an
\* integer whenever its string form is all digits, 0 included, and is absent
\* otherwise; a non-numeric value never drops the record and never raises.
C13_MetricKeptWhenDigits ==
    called \in {{"json"}, {"csv"}} =>
        /\ pc # "raised"
        /\ \A j \in 1..Len(input) :
            /\ DictStep(input[j]) # <<>> => EmittedBy(j) # {}
            /\ \A i \in EmittedBy(j) :
                /\ routes[i].metric =
                        DigitsOrAbsent(FieldOrElse(input[j], "metric", "cost"))
                /\ routes[i].admin_distance =
                        DigitsOrAbsent(FieldOrElse(input[j], "admin_distance", "ad"))

\* one of the four keys of the decoded object holds an array
HasArrayKey(doc) ==
    doc.kind = "object" /\ \E i \in 1..Len(json_keys) : doc.keys[json_keys[i]] = "array"

\* C14: for a top-level object _parse_json takes its records from the first of
\* routes, entries, data, routing_table that holds an array; a key that is
\* present without holding an array does not keep a later one from being used.
C14_FirstArrayKeyUsed ==
    [][(pc = "json" /\ HasArrayKey(content.doc)) => pc' = "json_items"]_vars

(***************************************************************************)
(* Properties of the comparator                                            *)
(***************************************************************************)
PreSubnets == SubnetsOf(all_pre_routes)
PostSubnets == SubnetsOf(all_post_routes)

MissingSubnets(c) == {subnet(r) : r \in c.missing_routes}
AddedSubnets(c) == {subnet(r) : r \in c.added_routes}
UnchangedSubnets(c) == {subnet(r) : r \in c.unchanged_routes}
ChangedSubnets(c) == {ch.subnet : ch \in c.changed_routes}

\* C1: compare() puts every distinct pre-change subnet in exactly one of
\* missing, changed, unchanged (missing iff absent from the post-change
\* subnets), every post-only subnet in added and nowhere else, and
\* |missing| + |changed| + |unchanged| is the number of distinct pre subnets.
C1_Partition ==
    pc = "compared" =>
        LET M == MissingSubnets(comparison)
            A == AddedSubnets(comparison)
            U == UnchangedSubnets(comparison)
            Ch == ChangedSubnets(comparison)
        IN  /\ M \cup Ch \cup U = PreSubnets
            /\ M \cap Ch = {} /\ M \cap U = {} /\ Ch \cap U = {}
            /\ M = PreSubnets \ PostSubnets
            /\ A = PostSubnets \ PreSubnets
            /\ A \cap (M \cup Ch \cup U) = {}
            /\ Cardinality(comparison.missing_routes) = Cardinality(M)
            /\ Cardinality(comparison.changed_routes) = Cardinality(Ch)
            /\ Cardinality(comparison.unchanged_routes) = Cardinality(U)
            /\ Cardinality(comparison.added_routes) = Cardinality(A)
            /\ comparison.summary.missing_routes + comparison.summary.changed_routes
                 + comparison.summary.unchanged_routes = Cardinality(PreSubnets)

\* several pre-change routes share one subnet, which is changed, and the
\* post-change side brings a subnet of its own
C1_Witness ==
    /\ pc = "compared"
    /\ Len(all_pre_routes) > Cardinality(PreSubnets)
    /\ comparison.changed_routes # {}
    /\ comparison.added_routes # {}

\* the number of routes of the sequence with the subnet
CountOf(rs, sn) == Cardinality({i \in 1..Len(rs) : subnet(rs[i]) = sn})

\* the (next_hop, interface, protocol) triples of the routes with the subnet
TriplesOf(rs, sn) ==
    {<<rs[i].next_hop, rs[i].interface, rs[i].protocol>> :
        i \in {k \in 1..Len(rs) : subnet(rs[k]) = sn}}

\* C2: a subnet present on both sides is unchanged iff the two sides hold the
\* same number of routes for it and the same set of (next_hop, interface,
\* protocol) triples over all of its routes, in whatever order they come;
\* otherwise it is changed.
C2_UnchangedIffSameCountAndTriples ==
    pc = "compared" =>
        \A sn \in PreSubnets \cap PostSubnets :
            LET same == /\ CountOf(all_pre_routes, sn) = CountOf(all_post_routes, sn)
                        /\ TriplesOf(all_pre_routes, sn) = TriplesOf(all_post_routes, sn)
            IN  /\ sn \in UnchangedSubnets(comparison) <=> same
                /\ sn \in ChangedSubnets(comparison) <=> ~same

\* two paths per side, listed in different orders, first-seen routes differing
C2_Witness ==
    /\ pc = "compared"
    /\ \E sn \in UnchangedSubnets(comparison) :
        /\ CountOf(all_pre_routes, sn) = 2
        /\ Cardinality(TriplesOf(all_pre_routes, sn)) = 2
        /\ NhKey(pre_routes[sn]) # NhKey(post_routes[sn])

\* the interface names both begin with 'vlan', whatever the case
BothVlan(a, b) ==
    /\ a # None /\ b # None
    /\ StartsWith(Lower(a), STR_vlan) /\ StartsWith(Lower(b), STR_vlan)

\* the two argument lists differ at most in the instance of a VLAN interface
SameButVlanInstance(r1, r2) ==
    /\ r1.destination = r2.destination
    /\ r1.prefix_length = r2.prefix_length
    /\ r1.next_hop = r2.next_hop
    /\ r1.protocol = r2.protocol
    /\ r1.metric = r2.metric
    /\ r1.admin_distance = r2.admin_distance
    /\ r1.interface = r2.interface \/ BothVlan(r1.interface, r2.interface)

VlanTwins ==
    /\ Len(raw_pre) = Len(raw_post)
    /\ \A i \in 1..Len(raw_pre) : SameButVlanInstance(raw_pre[i], raw_post[i])

\* C8: route sets that differ only in the instance of a VLAN interface compare
\* unchanged: every interface beginning with 'vlan' (any case) is stored as
\* 'vlan', and normalizing a stored interface again changes nothing.
C8_VlanInstanceIgnored ==
    /\ \A i \in 1..Len(all_pre_routes) :
        /\ (raw_pre[i].interface # None
                /\ StartsWith(Lower(raw_pre[i].interface), STR_vlan))
             => all_pre_routes[i].interface = STR_vlan
        /\ NormInterface(all_pre_routes[i].interface) = all_pre_routes[i].interface
    /\ \A i \in 1..Len(all_post_routes) :
        /\ (raw_post[i].interface # None
                /\ StartsWith(Lower(raw_post[i].interface), STR_vlan))
             => all_post_routes[i].interface = STR_vlan
        /\ NormInterface(all_post_routes[i].interface) = all_post_routes[i].interface
    /\ (pc = "compared" /\ VlanTwins) =>
        /\ comparison.changed_routes = {}
        /\ comparison.missing_routes = {}
        /\ comparison.added_routes = {}
        /\ UnchangedSubnets(comparison) = PreSubnets

\* 'Vlan10' before and 'vlan999' after on an otherwise identical route
C8_Witness ==
    /\ pc = "compared"
    /\ VlanTwins
    /\ \E i \in 1..Len(raw_pre) :
        /\ raw_pre[i].interface = STR_Vlan10
        /\ raw_post[i].interface = STR_vlan999
    /\ comparison.unchanged_routes # {}

\* compare() of the comparator built with the two sequences swapped
Swapped ==
    compare(IndexFirst(all_post_routes), IndexDetails(all_post_routes),
            IndexFirst(all_pre_routes), IndexDetails(all_pre_routes))

\* C9: the equality verdict does not depend on which sequence is 'pre': with
\* the inputs swapped the unchanged and the changed subnets are the same and
\* the missing and the added subnets trade places.
C9_SwapSymmetric ==
    pc = "compared" =>
        /\ \A sn \in PreSubnets \cap PostSubnets :
            _routes_equal(pre_route_details, post_route_details,
                          pre_routes[sn], post_routes[sn])
            <=> _routes_equal(post_route_details, pre_route_details,
                              post_routes[sn], pre_routes[sn])
        /\ UnchangedSubnets(Swapped) = UnchangedSubnets(comparison)
        /\ ChangedSubnets(Swapped) = ChangedSubnets(comparison)
        /\ MissingSubnets(Swapped) = AddedSubnets(comparison)
        /\ AddedSubnets(Swapped) = MissingSubnets(comparison)

\* a changed subnet whose two sides hold different sets of paths, next to an
\* added one
C9_Witness ==
    /\ pc = "compared"
    /\ \E ch \in comparison.changed_routes :
        /\ NextHops(pre_route_details[ch.subnet]) # NextHops(post_route_details[ch.subnet])
        /\ Len(pre_route_details[ch.subnet]) = Len(post_route_details[ch.subnet])
    /\ comparison.added_routes # {}

\* the lines of one kind in a 'changes' list
LinesOf(changes, kind) == {d \in changes : d.kind = kind}

\* C15: the 'changes' of a changed subnet are exactly one 'Number of paths'
\* line iff the two route counts differ, one 'Removed path' line per triple
\* found on the pre side only and one 'Added path' line per triple found on
\* the post side only; the list is never empty.
C15_ChangesAreCountAndPathDiff ==
    pc = "compared" =>
        \A ch \in comparison.changed_routes :
            LET pre_n == CountOf(all_pre_routes, ch.subnet)
                post_n == CountOf(all_post_routes, ch.subnet)
                pre_t == TriplesOf(all_pre_routes, ch.subnet)
                post_t == TriplesOf(all_post_routes, ch.subnet)
            IN  /\ ch.changes # {}
                /\ \A d \in ch.changes :
                        d.kind \in {"Number of paths", "Removed path", "Added path"}
                /\ LinesOf(ch.changes, "Number of paths") =
                        IF pre_n # post_n
                        THEN {Change("Number of paths", pre_n, post_n, NoKey)}
                        ELSE {}
                /\ {d.key : d \in LinesOf(ch.changes, "Removed path")} = pre_t \ post_t
                /\ {d.key : d \in LinesOf(ch.changes, "Added path")} = post_t \ pre_t
                /\ Cardinality(LinesOf(ch.changes, "Removed path"))
                        = Cardinality(pre_t \ post_t)
                /\ Cardinality(LinesOf(ch.changes, "Added path"))
                        = Cardinality(post_t \ pre_t)

\* a subnet that lost one of its two paths: a count line and a removed path
C15_Witness ==
    /\ pc = "compared"
    /\ \E ch \in comparison.changed_routes :
        /\ LinesOf(ch.changes, "Number of paths") # {}
        /\ LinesOf(ch.changes, "Removed path") # {}
        /\ LinesOf(ch.changes, "Added path") = {}

\* a route with metric and admin distance left out
WithoutMetric(r) == [r EXCEPT !.metric = NoneInt, !.admin_distance = NoneInt]

\* the two sides of the subnet hold the same routes but for metric and
\* admin distance
DifferOnlyInMetric(sn) ==
    LET a == WithSubnet(all_pre_routes, sn)
        b == WithSubnet(all_post_routes, sn)
    IN  /\ Len(a) = Len(b)
        /\ \A i \in 1..Len(a) : WithoutMetric(a[i]) = WithoutMetric(b[i])

\* C16: the keys of pre_routes and pre_route_details, and of post_routes and
\* post_route_details, coincide, so every subnet compare() looks at is a key
\* of both detail maps and the fallback branches never run: a subnet whose
\* sides differ only in metric or admin distance is unchanged and no
\* single-representative change line is ever produced.
C16_FallbackNeverTaken ==
    pc \in {"ready", "compared"} =>
        /\ DOMAIN pre_route_details = DOMAIN pre_routes
        /\ DOMAIN post_route_details = DOMAIN post_routes
        /\ DOMAIN pre_routes = PreSubnets
        /\ DOMAIN post_routes = PostSubnets
        /\ pc = "compared" =>
            /\ \A ch \in comparison.changed_routes : \A d \in ch.changes :
                    d.kind \notin {"Next hop", "Interface", "Protocol", "Metric",
                                   "Admin distance"}
            /\ \A sn \in PreSubnets \cap PostSubnets :
                    DifferOnlyInMetric(sn) => sn \in UnchangedSubnets(comparison)

\* a subnet whose two representatives differ in metric, classified unchanged
C16_Witness ==
    /\ pc = "compared"
    /\ \E sn \in UnchangedSubnets(comparison) :
        /\ pre_routes[sn].metric # post_routes[sn].metric
        /\ DifferOnlyInMetric(sn)

====
